---- MODULE Spec2Model ----
(***************************************************************************)
(* Model of the pseudonema bot: the webhook front end and trend scan of    *)
(* main.py, and the feed ingestion run of scout_agent.py.                  *)
(*                                                                         *)
(* Three specifications share the module:                                  *)
(*   SpecCodec  the callback token encoder/decoder, as pure functions      *)
(*   SpecBot    webhook -> router -> handlers -> topic scan                *)
(*   SpecScout  run_scout                                                  *)
(* A string is a sequence of characters; a character is named by a short   *)
(* string and has a UTF-8 width of 1 to 4 bytes.                           *)
(***************************************************************************)
EXTENDS Integers, Sequences, FiniteSets, TLC

VARIABLES
    cPc, cName, cToken, cTopic,          \* codec: one name through encode/decode
    kPc, kNames, kBoard,                 \* one call of build_dynamic_keyboard
    SECRET_TOKEN, ptbApp,                \* main.py configuration after lifespan
    reqs, msgs, cfgMgr,                  \* requests in flight, chat, _config_mgr
    sPc, sPrior, sessionId, feedIdx,     \* run_scout position and locals
    collected, lastFeed, sessions, rawNews, sRet

codecVars == <<cPc, cName, cToken, cTopic, kPc, kNames, kBoard>>
botVars   == <<SECRET_TOKEN, ptbApp, reqs, msgs, cfgMgr>>
scoutVars == <<sPc, sPrior, sessionId, feedIdx, collected, lastFeed, sessions,
               rawNews, sRet>>
vars      == <<codecVars, botVars, scoutVars>>

None == "None"

(***************************************************************************)
(* Strings                                                                 *)
(***************************************************************************)
\* UTF-8 width of a character: "e2" stands for a 2-byte character (e-acute),
\* "z3" for a 3-byte one (CJK), "g4" for a 4-byte one (emoji).
ByteWidth(ch) ==
    CASE ch = "e2" -> 2
      [] ch = "z3" -> 3
      [] ch = "g4" -> 4
      [] OTHER     -> 1

RECURSIVE Utf8Len(_)
Utf8Len(s) == IF s = <<>> THEN 0 ELSE ByteWidth(Head(s)) + Utf8Len(Tail(s))

RECURSIVE Rep(_, _)
Rep(ch, n) == IF n = 0 THEN <<>> ELSE <<ch>> \o Rep(ch, n - 1)

\* s[:n]
Take(s, n) == SubSeq(s, 1, IF Len(s) < n THEN Len(s) ELSE n)

\* s.startswith(p)
StartsWith(s, p) == Len(s) >= Len(p) /\ SubSeq(s, 1, Len(p)) = p

\* s.replace(old, new): every non-overlapping occurrence, left to right
RECURSIVE StrReplace(_, _, _)
StrReplace(s, old, new) ==
    IF Len(s) < Len(old) THEN s
    ELSE IF StartsWith(s, old)
         THEN new \o StrReplace(SubSeq(s, Len(old) + 1, Len(s)), old, new)
         ELSE <<Head(s)>> \o StrReplace(Tail(s), old, new)

(***************************************************************************)
(* Callback tokens (main.py build_dynamic_keyboard / button_handler)       *)
(***************************************************************************)
ScoutPrefix == <<"s", "c", "o", "u", "t", "_">>
RefreshToken == <<"r", "e", "f", "r", "e", "s", "h", "_", "t", "r", "e", "n", "d", "i", "n", "g">>

TopicChars == 45
CallbackDataLimit == 64

\* safe_topic = topic[:45]
SafeTopic(topic) == Take(topic, TopicChars)

\* callback_data=f"scout_{safe_topic}"
CallbackData(topic) == ScoutPrefix \o SafeTopic(topic)

\* topic = data.replace("scout_", "")
DecodeTopic(data) == StrReplace(data, ScoutPrefix, <<>>)

\* build_dynamic_keyboard: rows of two trend buttons, then the regenerate row
Button(text, data) == [text |-> text, data |-> data]

TrendButton(topic) == Button(topic, CallbackData(topic))

TrendRowsOnePerRow(names) == [i \in 1..Len(names) |-> <<TrendButton(names[i])>>]
RECURSIVE TrendRows(_)
TrendRows(names) ==
    IF names = <<>> THEN <<>>
    ELSE IF Len(names) = 1 THEN << <<TrendButton(names[1])>> >>
    ELSE << <<TrendButton(names[1]), TrendButton(names[2])>> >>
         \o TrendRows(SubSeq(names, 3, Len(names)))

RegenerateRow == <<Button(<<"g4">> \o RefreshToken, RefreshToken)>>

build_keyboard_bare_when_empty(trend_names) ==
    IF trend_names = <<>> THEN <<>> ELSE TrendRows(trend_names) \o <<RegenerateRow>>
build_dynamic_keyboard(trend_names) == TrendRows(trend_names) \o <<RegenerateRow>>

NoKeyboard == <<>>

KeyboardData(kb) == UNION {{kb[i][j].data : j \in DOMAIN kb[i]} : i \in DOMAIN kb}

(***************************************************************************)
(* SpecCodec: one trend name through encode, then decode                   *)
(***************************************************************************)
MaxLead == 46
MaxTrail == 1

Fillers == {"a", "e2", "z3", "g4"}

Pieces == {<<>>, ScoutPrefix, <<"s", "c", "o", "u", "t">>,
           <<"s">> \o ScoutPrefix \o <<"c", "o", "u", "t", "_">>}

\* Names: a run of one filler, a piece that may hold the prefix text, a tail.
Names == {Rep(f, k) \o p \o Rep(g, m) :
             f \in Fillers, k \in 0..MaxLead, p \in Pieces,
             g \in {"a", "_"}, m \in 0..MaxTrail}

KeyboardIdle ==
    /\ kPc = "idle" /\ kNames = <<>> /\ kBoard = <<>>

CodecIdle ==
    /\ cPc = "idle" /\ cName = <<>> /\ cToken = <<>> /\ cTopic = <<>>
    /\ KeyboardIdle

CodecInit ==
    /\ cPc = "name" /\ cName \in Names /\ cToken = <<>> /\ cTopic = <<>>
    /\ KeyboardIdle

\* build_dynamic_keyboard, the body of the inner loop for one topic
CodecEncode ==
    /\ cPc = "name"
    /\ cToken' = TrendButton(cName).data
    /\ cPc' = "token"
    /\ UNCHANGED <<cName, cTopic, kPc, kNames, kBoard, botVars, scoutVars>>

\* button_handler, the trend-selection branch
CodecDecode ==
    /\ cPc = "token"
    /\ StartsWith(cToken, ScoutPrefix)
    /\ cTopic' = DecodeTopic(cToken)
    /\ cPc' = "topic"
    /\ UNCHANGED <<cName, cToken, kPc, kNames, kBoard, botVars, scoutVars>>

(***************************************************************************)
(* SpecBot: main.py                                                        *)
(***************************************************************************)
MaxReqs == 2

ADMIN_ID == 1
Users == {ADMIN_ID, ADMIN_ID + 1}

Secret == "s3cr3t"
Headers == {None, Secret, "wrong"}

\* html.escape(s): & < > are replaced by entities (quote=True also maps the
\* two quote characters, which the modelled alphabet does not contain)
EscapeChar(ch) ==
    CASE ch = "&" -> <<"&", "a", "m", "p", ";">>
      [] ch = "<" -> <<"&", "l", "t", ";">>
      [] ch = ">" -> <<"&", "g", "t", ";">>
      [] OTHER    -> <<ch>>

RECURSIVE HtmlEscape(_)
HtmlEscape(s) == IF s = <<>> THEN <<>> ELSE EscapeChar(Head(s)) \o HtmlEscape(Tail(s))

\* What the collaborators can hand back
NameA == <<"a">>
NameScout == ScoutPrefix \o <<"a">>
NameWide == Rep("z3", 20)
TrendLists == {<<>>, <<NameA, NameScout, NameA>>, <<NameWide>>}
ExcMessages == {<<"<", "a", ">", "&">>}
TransportError == <<"t">>
Configs == {"cfg1", "cfg2"}

NoUpdate == [kind |-> "none", user |-> 0, hasMsg |-> FALSE, data |-> <<>>, msg |-> 0]

\* Messages of the chat that carry an inline keyboard, and what a press on
\* one of them can send
WithKeyboard == {m \in DOMAIN msgs : msgs[m].kb # NoKeyboard}

Updates ==
    {[kind |-> k, user |-> u, hasMsg |-> h, data |-> <<>>, msg |-> 0] :
        k \in {"start", "help", "trending"}, u \in Users, h \in BOOLEAN}
    \cup {[kind |-> "badjson", user |-> 0, hasMsg |-> FALSE, data |-> <<>>, msg |-> 0]}
    \cup UNION {{[kind |-> "callback", user |-> u, hasMsg |-> TRUE, data |-> d, msg |-> m] :
                    u \in Users, d \in KeyboardData(msgs[m].kb) \cup {<<>>}} :
                m \in WithKeyboard}
    \cup {[kind |-> "callback", user |-> u, hasMsg |-> FALSE, data |-> RefreshToken,
            msg |-> 0] : u \in Users}

NewReq(hdr, upd) ==
    [hdr |-> hdr, upd |-> upd, pc |-> "new", status |-> 0, processed |-> FALSE,
     handler |-> None, target |-> 0, statusMsg |-> 0, cfg |-> None,
     synthDone |-> FALSE, trends |-> <<>>, excFrom |-> None, exc |-> <<>>,
     answers |-> <<>>, nCfg |-> 0, nSynth |-> 0, nEdit |-> 0,
     tFail |-> FALSE, raised |-> FALSE]

NewMsg(kind, r, replyTo) ==
    [kind |-> kind, by |-> r, replyTo |-> replyTo, editors |-> <<>>,
     kb |-> NoKeyboard, body |-> <<>>, cfg |-> None]

BotIdle ==
    /\ SECRET_TOKEN = None /\ ptbApp = FALSE /\ reqs = <<>> /\ msgs = <<>>
    /\ cfgMgr = FALSE

\* The module-level configuration and the outcome of lifespan: no
\* TELEGRAM_BOT_TOKEN leaves app.state.ptb_app unset
BotInit ==
    /\ SECRET_TOKEN \in {None, Secret}
    /\ ptbApp \in BOOLEAN
    /\ reqs = <<>> /\ msgs = <<>>
    /\ cfgMgr = ptbApp

SetReq(r, rec) == reqs' = [reqs EXCEPT ![r] = rec]

\* The handler returned or raised: Application.process_update logs a handler's
\* exception and returns, so telegram_webhook answers 200 either way
Returned(rec) == [rec EXCEPT !.pc = "done", !.status = 200]
Raised(rec) == [Returned(rec) EXCEPT !.tFail = TRUE, !.raised = TRUE]

\* admin_only = filters.User(user_id=ADMIN_ID)
AdminOnlyOff(upd) == TRUE
AdminOnly(upd) == upd.user = ADMIN_ID

\* The handlers registered in lifespan, in order; the first that matches runs
Route(upd) ==
    CASE upd.kind \in {"start", "help", "trending"} /\ AdminOnly(upd) -> upd.kind
      [] upd.kind = "callback" -> "callback"
      [] OTHER -> None

\* if x_telegram_bot_api_secret_token != SECRET_TOKEN
SecretCheck(hdr) == hdr = SECRET_TOKEN

\* if not ptb_app: return Response(status_code=500, ...)
BotMissingIgnored == FALSE
BotMissing == ~ptbApp

\* POST /webhook up to the hand-over to the router
telegram_webhook(hdr, upd) ==
    /\ Len(reqs) < MaxReqs
    /\ (upd = NoUpdate) <=> ~SecretCheck(hdr)      \* the body is read past the check only
    /\ LET req == NewReq(hdr, upd) IN
       reqs' = Append(reqs,
          IF ~SecretCheck(hdr) THEN [req EXCEPT !.pc = "done", !.status = 403]
          ELSE IF upd.kind = "badjson" \/ BotMissing
               THEN [req EXCEPT !.pc = "done", !.status = 500]
          ELSE IF Route(upd) = None
               THEN [Returned(req) EXCEPT !.processed = TRUE]
          ELSE [req EXCEPT !.processed = TRUE, !.handler = Route(upd),
                           !.pc = Route(upd)])
    /\ UNCHANGED <<SECRET_TOKEN, ptbApp, msgs, cfgMgr, codecVars, scoutVars>>

\* start_command and help_command: one reply
Reply(r, kind) ==
    LET rec == reqs[r] IN
    IF ~rec.upd.hasMsg
    THEN SetReq(r, Returned(rec)) /\ UNCHANGED msgs
    ELSE \E ok \in BOOLEAN :
           IF ok THEN /\ msgs' = Append(msgs, NewMsg(kind, r, 0))
                      /\ SetReq(r, Returned(rec))
                 ELSE /\ SetReq(r, Raised(rec))
                      /\ UNCHANGED msgs

start_command(r) ==
    /\ reqs[r].pc = "start"
    /\ Reply(r, "welcome")
    /\ UNCHANGED <<SECRET_TOKEN, ptbApp, cfgMgr, codecVars, scoutVars>>

help_command(r) ==
    /\ reqs[r].pc = "help"
    /\ Reply(r, "help")
    /\ UNCHANGED <<SECRET_TOKEN, ptbApp, cfgMgr, codecVars, scoutVars>>

trending_command(r) ==
    /\ reqs[r].pc = "trending"
    /\ SetReq(r, IF ~reqs[r].upd.hasMsg THEN Returned(reqs[r])
                 ELSE [reqs[r] EXCEPT !.pc = "trigger", !.target = 0])
    /\ UNCHANGED <<SECRET_TOKEN, ptbApp, msgs, cfgMgr, codecVars, scoutVars>>

\* if update.effective_user.id != ADMIN_ID: ... return
PressByAnyone(upd) == TRUE
PressByAdmin(upd) == upd.user = ADMIN_ID

Answer(text, alert, topic) == [text |-> text, alert |-> alert, topic |-> topic]

\* await query.answer(...): delivered, or the transport call raises
Answered(rec, ans, ok, next) ==
    IF ok THEN [next EXCEPT !.answers = Append(rec.answers, ans)] ELSE Raised(rec)

\* the trend-selection branch ends after its notice: scouting is disabled
AfterSelectionScan(rec) == [rec EXCEPT !.pc = "trigger", !.target = rec.upd.msg]
AfterSelection(rec) == Returned(rec)

button_handler(r) ==
    /\ reqs[r].pc = "callback"
    /\ LET rec == reqs[r]
           data == rec.upd.data IN
       \E ok \in BOOLEAN :
         SetReq(r,
           IF ~rec.upd.hasMsg THEN Returned(rec)
           ELSE IF ~PressByAdmin(rec.upd)
                THEN Answered(rec, Answer("denied", TRUE, <<>>), ok, Returned(rec))
           ELSE IF data = <<>> THEN Returned(rec)
           ELSE IF StartsWith(data, ScoutPrefix)
                THEN Answered(rec, Answer("selected", TRUE, DecodeTopic(data)), ok,
                              AfterSelection(rec))
           ELSE IF data = RefreshToken
                THEN Answered(rec, Answer("", FALSE, <<>>), ok,
                              [rec EXCEPT !.pc = "trigger", !.target = rec.upd.msg])
           ELSE Returned(rec))
    /\ UNCHANGED <<SECRET_TOKEN, ptbApp, msgs, cfgMgr, codecVars, scoutVars>>

(***************************************************************************)
(* trigger_trend_generation, one action per suspension point               *)
(***************************************************************************)
\* edit_text on the placeholder: text, keyboard and header are replaced
Edited(m, r, kind, kb, body, cfg) ==
    [msgs EXCEPT ![m] = [@ EXCEPT !.kind = kind, !.editors = Append(@, r),
                                  !.kb = kb, !.body = body, !.cfg = cfg]]

\* The transport refuses a keyboard holding callback_data above 64 bytes
KeyboardAccepted(kb) == \A d \in KeyboardData(kb) : Utf8Len(d) <= CallbackDataLimit

\* f"... Error generating trends</b>: {html.escape(str(e))}"
ErrorTextRaw(e) == e
ErrorText(e) == HtmlEscape(e)

\* if trends: ... else: ...
RenderKindAlwaysGrid(trends) == "grid"
RenderKind(trends) == IF trends # <<>> THEN "grid" ELSE "empty"

\* except Exception as e: the handler reads e and status_msg only, so the
\* targets and trends of the abandoned attempt are dropped from the record
CaughtRetry(rec, from, e) == [rec EXCEPT !.pc = "config"]
Caught(rec, from, e) ==
    [rec EXCEPT !.pc = "except", !.excFrom = from, !.exc = e,
                !.cfg = None, !.trends = <<>>]

\* lines 74-78: the guard and the in-progress placeholder
trigger_placeholder(r) ==
    /\ reqs[r].pc = "trigger"
    /\ LET rec == reqs[r]
           kind == IF ~cfgMgr THEN "notinit" ELSE "progress" IN
       \E ok \in BOOLEAN :
         IF ok
         THEN /\ msgs' = Append(msgs, NewMsg(kind, r, rec.target))
              /\ SetReq(r, IF ~cfgMgr THEN Returned(rec)
                           ELSE [rec EXCEPT !.pc = "config",
                                            !.statusMsg = Len(msgs) + 1])
         ELSE /\ SetReq(r, Raised(rec))
              /\ UNCHANGED msgs
    /\ UNCHANGED <<SECRET_TOKEN, ptbApp, cfgMgr, codecVars, scoutVars>>

\* lines 82-84: reload the stored configuration, then read the targets; the
\* stored configuration is whatever the table holds at that moment
trigger_config(r) ==
    /\ reqs[r].pc = "config"
    /\ LET rec == [reqs[r] EXCEPT !.nCfg = @ + 1] IN
       \/ \E e \in ExcMessages : SetReq(r, Caught(rec, "config", e))
       \/ \E c \in Configs : SetReq(r, [rec EXCEPT !.pc = "synth", !.cfg = c])
    /\ UNCHANGED <<SECRET_TOKEN, ptbApp, msgs, cfgMgr, codecVars, scoutVars>>

\* lines 87-93: search and extraction
trigger_synthesize(r) ==
    /\ reqs[r].pc = "synth"
    /\ LET rec == [reqs[r] EXCEPT !.nSynth = @ + 1] IN
       \/ \E e \in ExcMessages : SetReq(r, Caught(rec, "synth", e))
       \/ \E t \in TrendLists :
            SetReq(r, [rec EXCEPT !.pc = "render", !.synthDone = TRUE, !.trends = t])
    /\ UNCHANGED <<SECRET_TOKEN, ptbApp, msgs, cfgMgr, codecVars, scoutVars>>

\* category, subcat, topics: locals of the coroutine, bound by get_trends()
HeaderOfLatest(rec) == reqs[Len(reqs)].cfg
Header(rec) == rec.cfg

\* lines 95-114: the grid, or the no-results notice, into the placeholder
trigger_render(r) ==
    /\ reqs[r].pc = "render"
    /\ LET rec == [reqs[r] EXCEPT !.nEdit = @ + 1]
           kb == IF rec.trends # <<>> THEN build_dynamic_keyboard(rec.trends)
                 ELSE NoKeyboard
           kind == RenderKind(rec.trends)
           header == IF rec.trends # <<>> THEN Header(rec) ELSE None IN
       \E ok \in BOOLEAN :
         /\ ok => KeyboardAccepted(kb)
         /\ IF ok
            THEN /\ msgs' = Edited(rec.statusMsg, r, kind, kb, <<>>, header)
                 /\ SetReq(r, Returned(rec))
            ELSE /\ SetReq(r, [Caught(rec, "render", TransportError)
                                 EXCEPT !.tFail = TRUE])
                 /\ UNCHANGED msgs
    /\ UNCHANGED <<SECRET_TOKEN, ptbApp, cfgMgr, codecVars, scoutVars>>

\* lines 116-118: the error notice into the placeholder
trigger_except(r) ==
    /\ reqs[r].pc = "except"
    /\ LET rec == [reqs[r] EXCEPT !.nEdit = @ + 1] IN
       \E ok \in BOOLEAN :
         IF ok
         THEN /\ msgs' = Edited(rec.statusMsg, r, "error", NoKeyboard,
                                ErrorText(rec.exc), None)
              /\ SetReq(r, Returned(rec))
         ELSE /\ SetReq(r, Raised(rec))
              /\ UNCHANGED msgs
    /\ UNCHANGED <<SECRET_TOKEN, ptbApp, cfgMgr, codecVars, scoutVars>>

BotNext ==
    \/ \E hdr \in Headers, upd \in Updates \cup {NoUpdate} : telegram_webhook(hdr, upd)
    \/ \E r \in DOMAIN reqs : start_command(r)
    \/ \E r \in DOMAIN reqs : help_command(r)
    \/ \E r \in DOMAIN reqs : trending_command(r)
    \/ \E r \in DOMAIN reqs : button_handler(r)
    \/ \E r \in DOMAIN reqs : trigger_placeholder(r)
    \/ \E r \in DOMAIN reqs : trigger_config(r)
    \/ \E r \in DOMAIN reqs : trigger_synthesize(r)
    \/ \E r \in DOMAIN reqs : trigger_render(r)
    \/ \E r \in DOMAIN reqs : trigger_except(r)

(***************************************************************************)
(* SpecScout: scout_agent.py run_scout                                     *)
(***************************************************************************)
MaxEntries == 4
MaxPrior == 1

EntryCap == 3

news_feeds == <<"techcrunch.com/feed", "theverge.com/rss", "news.ycombinator.com/rss",
                "wired.com/feed">>
reddit_feeds == <<"reddit.com/r/technology", "reddit.com/r/artificial",
                  "reddit.com/r/programming">>
all_feeds == news_feeds \o reddit_feeds

\* "Reddit" if "reddit.com" in feed_url else "News"
SourceOf(feed_url) ==
    IF \E i \in DOMAIN reddit_feeds : reddit_feeds[i] = feed_url THEN "Reddit"
    ELSE "News"

Min(a, b) == IF a < b THEN a ELSE b

\* The rows already in research_sessions; ids are handed out in sequence
PriorSessions(n) == [i \in 1..n |-> [id |-> i, status |-> "done"]]

\* What the pass of the loop just made found: the feed's position in
\* all_feeds, whether its fetch or parse raised, how many entries it had (kept
\* for a pass that did not raise), whether an earlier pass of this run raised,
\* and whether feedparser.parse raised in every pass made so far
NoFeed == [idx |-> 0, failed |-> FALSE, entries |-> 0, afterFailure |-> FALSE,
           allFetchRaised |-> TRUE]

ScoutIdle ==
    /\ sPc = "idle" /\ sPrior = 0 /\ sessionId = 0 /\ feedIdx = 0
    /\ collected = <<>> /\ lastFeed = NoFeed /\ sessions = <<>> /\ rawNews = <<>>
    /\ sRet = <<>>

ScoutInit ==
    /\ sPc = "start" /\ sPrior \in 0..MaxPrior /\ sessionId = 0 /\ feedIdx = 0
    /\ collected = <<>> /\ lastFeed = NoFeed
    /\ sessions = PriorSessions(sPrior) /\ rawNews = <<>>
    /\ sRet = <<>>

\* lines 13-15: the session row; insert().execute() returns the new id or raises
scout_session ==
    /\ sPc = "start"
    /\ \E ok \in BOOLEAN :
         IF ok
         THEN /\ sessions' = Append(sessions, [id |-> Len(sessions) + 1,
                                               status |-> "scouting"])
              /\ sessionId' = Len(sessions) + 1
              /\ feedIdx' = 1
              /\ sPc' = "feeds"
         ELSE /\ sPc' = "raised_session"
              /\ UNCHANGED <<sessions, sessionId, feedIdx>>
    /\ UNCHANGED <<sPrior, collected, lastFeed, rawNews, sRet, codecVars, botVars>>

Item(feed_url, k) ==
    [session_id |-> sessionId, source |-> SourceOf(feed_url), feed |-> feed_url,
     entry |-> k]

\* How many of the entries the loop over feed.entries[:3] appends before it
\* ends: entry `bad` (0: none) lacks title or link and raises when it is read
AppendedNoCap(n, bad) == IF bad \in 1..Min(n, EntryCap) THEN bad - 1 ELSE n
Appended(n, bad) == IF bad \in 1..Min(n, EntryCap) THEN bad - 1 ELSE Min(n, EntryCap)

\* except Exception as e: print(...), and the loop goes on
AfterPassAbort(failed) == IF failed THEN "raised_feed" ELSE "feeds"
AfterPass(failed) == "feeds"

\* lines 38-51: one pass of the loop over all_feeds. feedparser.parse raises
\* (parseFails), or gives n entries
scout_feed(parseFails, n, bad) ==
    /\ sPc = "feeds" /\ feedIdx <= Len(all_feeds)
    /\ bad <= n /\ (parseFails => n = 0)
    /\ LET feed_url == all_feeds[feedIdx]
           got == IF parseFails THEN 0 ELSE Appended(n, bad)
           failed == parseFails \/ bad \in 1..Min(n, EntryCap) IN
       /\ collected' = collected \o [k \in 1..got |-> Item(feed_url, k)]
       /\ lastFeed' = [idx |-> feedIdx, failed |-> failed,
                       entries |-> IF failed THEN 0 ELSE n,
                       afterFailure |-> lastFeed.failed \/ lastFeed.afterFailure,
                       allFetchRaised |-> parseFails /\ lastFeed.allFetchRaised]
       /\ sPc' = AfterPass(failed)
    /\ feedIdx' = feedIdx + 1
    /\ UNCHANGED <<sPrior, sessionId, sessions, rawNews, sRet, codecVars, botVars>>

\* if collected_items:
ShouldSaveAlways(items) == TRUE
ShouldSave(items) == items # <<>>

\* lines 53-57: one batch insert if anything was collected, then the return
scout_save ==
    /\ sPc = "feeds" /\ feedIdx > Len(all_feeds)
    /\ \E ok \in BOOLEAN :
         IF ~ShouldSave(collected)
         THEN /\ sRet' = <<Len(collected), sessionId>>
              /\ sPc' = "returned"
              /\ UNCHANGED rawNews
         ELSE IF ok
         THEN /\ rawNews' = Append(rawNews, collected)
              /\ sRet' = <<Len(collected), sessionId>>
              /\ sPc' = "returned"
         ELSE /\ sPc' = "raised_save"
              /\ UNCHANGED <<rawNews, sRet>>
    /\ UNCHANGED <<sPrior, sessionId, feedIdx, collected, lastFeed, sessions,
                   codecVars, botVars>>

ScoutNext ==
    \/ scout_session
    \/ \E parseFails \in BOOLEAN, n \in 0..MaxEntries, bad \in 0..MaxEntries :
          scout_feed(parseFails, n, bad)
    \/ scout_save

InitScout == CodecIdle /\ BotIdle /\ ScoutInit

SpecScout == InitScout /\ [][ScoutNext]_vars

InitCodec == CodecInit /\ BotIdle /\ ScoutIdle

CodecNext == CodecEncode \/ CodecDecode

SpecCodec == InitCodec /\ [][CodecNext]_vars

InitBot == CodecIdle /\ BotInit /\ ScoutIdle

SpecBot == InitBot /\ [][BotNext]_vars

(***************************************************************************)
(* SpecKeyboard: one list of trend names through build_dynamic_keyboard    *)
(***************************************************************************)
MaxNames == 4

\* a trend whose display name is the regenerate button's own label
NameRegenerate == RegenerateRow[1].text

TrendNames == {NameA, NameScout, NameWide, NameRegenerate}

NameLists == UNION {[1..n -> TrendNames] : n \in 0..MaxNames}

KeyboardInit ==
    /\ cPc = "idle" /\ cName = <<>> /\ cToken = <<>> /\ cTopic = <<>>
    /\ kPc = "names" /\ kNames \in NameLists /\ kBoard = <<>>

\* reply_markup = build_dynamic_keyboard(trend_names)
KeyboardBuild ==
    /\ kPc = "names"
    /\ kBoard' = build_dynamic_keyboard(kNames)
    /\ kPc' = "built"
    /\ UNCHANGED <<cPc, cName, cToken, cTopic, kNames, botVars, scoutVars>>

InitKeyboard == KeyboardInit /\ BotIdle /\ ScoutIdle

KeyboardNext == KeyboardBuild

SpecKeyboard == InitKeyboard /\ [][KeyboardNext]_vars

(***************************************************************************)
(* Properties of the callback token codec                                  *)
(***************************************************************************)
\* C1: decoding the token built for a trend name gives the name back when it
\* has at most 45 characters and its first 45 characters otherwise, for every
\* name, names holding the text "scout_" included.
C1_RoundTrip ==
    cPc = "topic" =>
        cTopic = IF Len(cName) <= TopicChars THEN cName
                 ELSE SubSeq(cName, 1, TopicChars)

\* C5: the callback token of a trend control takes at most 64 bytes in UTF-8,
\* whatever the byte width of the name's characters.
C5_TokenWithinLimit ==
    cPc \in {"token", "topic"} => Utf8Len(cToken) <= CallbackDataLimit

(***************************************************************************)
(* Properties of the webhook, the router and the topic scan                *)
(***************************************************************************)
Done(r) == reqs[r].pc = "done"
SentBy(r) == {m \in DOMAIN msgs : msgs[m].by = r}
EditedBy(r) == {m \in DOMAIN msgs : \E i \in DOMAIN msgs[m].editors :
                                        msgs[m].editors[i] = r}
IsCommand(upd) == upd.kind \in {"start", "help", "trending"}
IsPress(upd) == upd.kind = "callback"
FromStranger(r) == (IsCommand(reqs[r].upd) \/ IsPress(reqs[r].upd))
                   /\ reqs[r].upd.user # ADMIN_ID
DenyNotice == Answer("denied", TRUE, <<>>)

\* C2: an update reaches the router only if the request carried a secret
\* header equal to the configured secret; a request whose header is absent or
\* different is answered 403 and nothing is processed, in every configuration.
C2_SecretGate ==
    \A r \in DOMAIN reqs :
        /\ reqs[r].processed => reqs[r].hdr # None /\ reqs[r].hdr = SECRET_TOKEN
        /\ (reqs[r].hdr = None \/ reqs[r].hdr # SECRET_TOKEN)
               => reqs[r].status = 403 /\ ~reqs[r].processed

\* C3: a command or button press from anyone but the admin runs no
\* synthesizer, reloads no config, sends no message and edits none; the only
\* transport effect is the rejection notice.
C3_StrangerNoEffects ==
    \A r \in DOMAIN reqs :
        FromStranger(r) =>
            /\ reqs[r].nSynth = 0 /\ reqs[r].nCfg = 0
            /\ SentBy(r) = {} /\ EditedBy(r) = {}
            /\ \A i \in DOMAIN reqs[r].answers : reqs[r].answers[i] = DenyNotice

C3_Witness ==
    \E r \in DOMAIN reqs :
        /\ FromStranger(r) /\ Done(r) /\ IsPress(reqs[r].upd)
        /\ reqs[r].upd.data = RefreshToken /\ reqs[r].upd.msg # 0
        /\ reqs[r].answers = <<DenyNotice>>

ScanDone(r) == Done(r) /\ reqs[r].statusMsg # 0 /\ ~reqs[r].tFail

\* C6: a scan whose transport calls succeed sends exactly one message, the
\* placeholder, and edits that message exactly once: into the grid iff the
\* synthesizer returned a trend, the no-results notice iff it returned none,
\* the error notice iff an exception was raised.
C6_OneMessageOneEdit ==
    \A r \in DOMAIN reqs :
        /\ reqs[r].statusMsg # 0 => SentBy(r) = {reqs[r].statusMsg}
        /\ ScanDone(r) =>
            LET m == msgs[reqs[r].statusMsg] IN
            /\ EditedBy(r) = {reqs[r].statusMsg}
            /\ m.editors = <<r>>
            /\ m.kind \in {"grid", "empty", "error"}
            /\ m.kind = "grid" <=> (reqs[r].synthDone /\ reqs[r].trends # <<>>)
            /\ m.kind = "empty" <=> (reqs[r].synthDone /\ reqs[r].trends = <<>>)
            /\ m.kind = "error" <=> reqs[r].excFrom # None

C6_Witness ==
    \E r, q \in DOMAIN reqs :
        /\ ScanDone(r) /\ msgs[reqs[r].statusMsg].kind = "grid"
        /\ ScanDone(q) /\ msgs[reqs[q].statusMsg].kind \in {"empty", "error"}

\* C7: a regenerate press by the admin is rendered into the message that
\* carried the pressed control, and creates no additional message.
C7_RegenerateInPlace ==
    \A r \in DOMAIN reqs :
        /\ IsPress(reqs[r].upd) /\ reqs[r].upd.data = RefreshToken
        /\ reqs[r].upd.user = ADMIN_ID /\ Done(r) /\ ~reqs[r].tFail
        => /\ SentBy(r) = {}
           /\ reqs[r].upd.hasMsg => EditedBy(r) = {reqs[r].upd.msg}

\* C8: when config initialization, search or extraction raises and the
\* transport calls succeed, the handler returns normally and the placeholder
\* holds the error notice with the HTML-escaped exception message; no
\* placeholder of a returned scan is left in progress.
C8_ErrorReported ==
    \A r \in DOMAIN reqs :
        ScanDone(r) =>
            LET m == msgs[reqs[r].statusMsg] IN
            /\ m.kind # "progress"
            /\ reqs[r].excFrom \in {"config", "synth"} =>
                  /\ ~reqs[r].raised /\ reqs[r].status = 200
                  /\ m.kind = "error"
                  /\ m.body = HtmlEscape(reqs[r].exc)
                  /\ \A i \in DOMAIN m.body : m.body[i] \notin {"<", ">"}
                  /\ reqs[r].exc \in ExcMessages

C8_Witness ==
    \E r, q \in DOMAIN reqs :
        /\ ScanDone(r) /\ reqs[r].excFrom = "config"
        /\ ScanDone(q) /\ reqs[q].excFrom = "synth"
        /\ msgs[reqs[q].statusMsg].kind = "error"

(***************************************************************************)
(* Properties of the ingestion run                                         *)
(***************************************************************************)
CountIn(items, feed_url) ==
    Cardinality({i \in DOMAIN items : items[i].feed = feed_url})

\* C9: a source whose fetch or parse fails contributes zero items to the
\* batch, wherever in its processing the failure occurs.
C9_FailedFeedContributesNothing ==
    lastFeed.idx # 0 /\ lastFeed.failed
        => CountIn(collected, all_feeds[lastFeed.idx]) = 0

\* C10: whichever feeds fail, a feed that does not fail contributes exactly
\* min(3, its entries) items, no pass changes what another feed contributed,
\* the loop goes on to the next feed after a failure, no feed failure ends
\* the run, and the run returns only after all feeds were visited.
C10_State ==
    /\ sPc # "raised_feed"
    /\ lastFeed.idx # 0 =>
          /\ feedIdx = lastFeed.idx + 1
          /\ ~lastFeed.failed =>
                CountIn(collected, all_feeds[lastFeed.idx])
                    = Min(EntryCap, lastFeed.entries)
    /\ sPc = "returned" => lastFeed.idx = Len(all_feeds)

C10_Step ==
    /\ Len(collected') >= Len(collected)
    /\ SubSeq(collected', 1, Len(collected)) = collected
    /\ \A i \in (Len(collected) + 1)..Len(collected') :
          collected'[i].feed = all_feeds[feedIdx]

\* C10: the state part in every reachable state, the step part on every step
C10_FailuresIsolated == []C10_State /\ [][C10_Step]_vars

C10_Witness ==
    /\ sPc = "returned" /\ lastFeed.afterFailure /\ ~lastFeed.failed
    /\ lastFeed.entries > EntryCap
    /\ CountIn(collected, all_feeds[Len(all_feeds)]) = EntryCap
    /\ CountIn(collected, all_feeds[1]) = 2

\* C11: a run makes at most one batch write, makes it iff it collected at
\* least one item, and returns (n, sessionId): n the number of items written
\* (0 without a write), sessionId the id of the session row this run created;
\* when every feed raises it returns (0, sessionId) and writes nothing.
C11_OneBatchWrite ==
    /\ Len(rawNews) <= 1
    /\ sPc # "returned" => rawNews = <<>> /\ sRet = <<>>
    /\ sPc = "returned" =>
          /\ rawNews = IF collected # <<>> THEN <<collected>> ELSE <<>>
          /\ sRet = <<IF rawNews = <<>> THEN 0 ELSE Len(rawNews[1]), sPrior + 1>>
          /\ Len(sessions) = sPrior + 1 /\ sessions[sPrior + 1].id = sRet[2]
          /\ lastFeed.allFetchRaised => sRet[1] = 0 /\ rawNews = <<>>

C11_Witness ==
    /\ sPc = "returned" /\ lastFeed.allFetchRaised /\ lastFeed.idx = Len(all_feeds)
    /\ rawNews = <<>> /\ sRet = <<0, sPrior + 1>> /\ sPrior > 0

\* C12: a run creates exactly one session row with status 'scouting', and
\* once the run has completed that row's status is 'done' or 'failed'.
C12_SessionLeavesScouting ==
    sPc \in {"returned", "raised_save"} =>
        /\ Len(sessions) = sPrior + 1
        /\ sessions[sessionId].status \in {"done", "failed"}

\* C20: each feed contributes at most 3 items, its first 3 entries in feed
\* order; the batch never holds more than 3 items per feed in all_feeds (21);
\* every item carries the id of the session row this run created.
C20_CappedAndTagged ==
    /\ \A f \in DOMAIN all_feeds : CountIn(collected, all_feeds[f]) <= 3
    /\ Len(collected) <= 3 * Len(all_feeds) /\ Len(all_feeds) = 7
    /\ \A i \in DOMAIN collected :
          /\ collected[i].session_id = sPrior + 1
          /\ sessions[sPrior + 1].status = "scouting"
          /\ collected[i].entry \in 1..3
          /\ collected[i].entry =
                Cardinality({j \in 1..i : collected[j].feed = collected[i].feed})
    /\ \A i, j \in DOMAIN collected :
          i < j /\ collected[i].feed = collected[j].feed
              => \A k \in i..j : collected[k].feed = collected[i].feed

C20_Witness ==
    /\ sPc = "returned" /\ Len(collected) = 21 /\ sPrior > 0
    /\ lastFeed.entries > 3 /\ rawNews = <<collected>>

\* Positions <<row, column>> of the buttons of a keyboard
Positions(kb) == {<<i, j>> : i \in DOMAIN kb, j \in 1..2} \cap
                 UNION {{<<i, j>> : j \in DOMAIN kb[i]} : i \in DOMAIN kb}

\* C13: for a list of any length n >= 0 the keyboard holds exactly one button
\* whose token is refresh_trending; it is alone in the last row, which comes
\* after the ceil(n/2) trend rows.
C13_OneRegenerateLast ==
    kPc = "built" =>
        LET last == Len(kBoard) IN
        /\ last = (Len(kNames) + 1) \div 2 + 1
        /\ Len(kBoard[last]) = 1
        /\ kBoard[last][1].data = RefreshToken
        /\ \A i \in DOMAIN kBoard : Len(kBoard[i]) \in 1..2
        /\ {p \in Positions(kBoard) : kBoard[p[1]][p[2]].data = RefreshToken}
              = {<<last, 1>>}

C13_Witness ==
    /\ kPc = "built" /\ kNames = <<>> /\ kBoard = <<RegenerateRow>>

\* C14: n names give ceil(n/2) trend rows of two (the last of one when n is
\* odd) in input order, nothing reordered or dropped: the button at row r,
\* column c (both from 0) is the button of the name at index 2r+c.
C14_RowsOfTwoInOrder ==
    kPc = "built" =>
        LET n == Len(kNames)
            rows == (n + 1) \div 2
        IN  /\ Len(kBoard) = rows + 1
            /\ \A r \in 1..rows :
                  Len(kBoard[r]) = IF r = rows /\ n % 2 = 1 THEN 1 ELSE 2
            /\ \A i \in 1..n :
                  LET r == (i + 1) \div 2
                      c == ((i - 1) % 2) + 1
                  IN  /\ kBoard[r][c].text = kNames[i]
                      /\ kBoard[r][c].data = ScoutPrefix \o Take(kNames[i], 45)

C14_Witness ==
    /\ kPc = "built" /\ kNames = <<NameA, NameScout, NameA>>
    /\ Len(kBoard) = 3 /\ Len(kBoard[1]) = 2 /\ Len(kBoard[2]) = 1
    /\ kBoard[2][1].text = NameA

\* An admin's press of a trend button on a message
IsSelection(r) ==
    /\ IsPress(reqs[r].upd) /\ reqs[r].upd.user = ADMIN_ID /\ reqs[r].upd.hasMsg
    /\ StartsWith(reqs[r].upd.data, ScoutPrefix)

\* C15: a trend-selection press by the admin is answered with exactly one
\* notice (the selection alert, once the answer call is delivered) and does
\* nothing else: no config load, no synthesizer run, no message sent, none
\* edited, and the request never enters the scan.
C15_SelectionOnlyAcknowledged ==
    \A r \in DOMAIN reqs :
        IsSelection(r) =>
            /\ reqs[r].nCfg = 0 /\ reqs[r].nSynth = 0 /\ reqs[r].nEdit = 0
            /\ SentBy(r) = {} /\ EditedBy(r) = {}
            /\ reqs[r].statusMsg = 0
            /\ reqs[r].pc \in {"callback", "done"}
            /\ Len(reqs[r].answers) <= 1
            /\ Done(r) /\ ~reqs[r].tFail =>
                  reqs[r].answers =
                      <<Answer("selected", TRUE, DecodeTopic(reqs[r].upd.data))>>

C15_Witness ==
    \E r \in DOMAIN reqs :
        /\ IsSelection(r) /\ Done(r) /\ ~reqs[r].tFail /\ Len(reqs[r].answers) = 1
        /\ reqs[r].answers[1].text = "selected"
        /\ r > 1 /\ msgs # <<>>

\* C16: after every completed scan, whatever the number of trends, the
\* message it rendered carries the regenerate control.
C16_RegenerateAlwaysOffered ==
    \A r \in DOMAIN reqs :
        ScanDone(r) => RefreshToken \in KeyboardData(msgs[reqs[r].statusMsg].kb)

C18_State ==
    \A r \in DOMAIN reqs :
        /\ reqs[r].status \in {0, 200, 403, 500}
        /\ Done(r) <=> reqs[r].status # 0
        /\ reqs[r].pc \in {"done", "start", "help", "trending", "callback",
                            "trigger", "config", "synth", "render", "except"}
        /\ reqs[r].status = 200 =>
              reqs[r].processed /\ SecretCheck(reqs[r].hdr) /\ ptbApp
        /\ reqs[r].status = 403 <=> ~SecretCheck(reqs[r].hdr)
        /\ reqs[r].status \in {403, 500} =>
              /\ ~reqs[r].processed /\ reqs[r].handler = None
              /\ reqs[r].answers = <<>> /\ SentBy(r) = {} /\ EditedBy(r) = {}
        /\ ~ptbApp /\ SecretCheck(reqs[r].hdr) =>
              reqs[r].status = 500 /\ ~reqs[r].processed

C18_Step ==
    /\ Len(reqs') >= Len(reqs)
    /\ \A r \in DOMAIN reqs : reqs[r].status # 0 => reqs'[r] = reqs[r]

C19_ScansIsolated ==
    /\ \A m \in DOMAIN msgs : \A i \in DOMAIN msgs[m].editors :
          msgs[m].editors[i] = msgs[m].by
    /\ \A r \in DOMAIN reqs :
          /\ EditedBy(r) \subseteq {reqs[r].statusMsg}
          /\ ScanDone(r) /\ msgs[reqs[r].statusMsg].kind = "grid" =>
                /\ reqs[r].cfg # None
                /\ msgs[reqs[r].statusMsg].cfg = reqs[r].cfg
                /\ msgs[reqs[r].statusMsg].kb = build_dynamic_keyboard(reqs[r].trends)

C19_Witness ==
    /\ Len(reqs) = 2
    /\ ScanDone(1) /\ ScanDone(2)
    /\ reqs[1].statusMsg > reqs[2].statusMsg
    /\ msgs[reqs[1].statusMsg].kind = "grid" /\ msgs[reqs[2].statusMsg].kind = "grid"
    /\ reqs[1].cfg # reqs[2].cfg
    /\ msgs[reqs[1].statusMsg].cfg # msgs[reqs[2].statusMsg].cfg

====
